---- MODULE Spec2Model ----
(***************************************************************************)
(* A model of the todo application's task store (TaskService), its Task    *)
(* record and its JSON persistence.                                        *)
(*                                                                         *)
(* Strings are sequences of one-character strings, so that trimming, case  *)
(* folding and id formatting are computed the way Python computes them.    *)
(* A datetime is a pair of whole seconds and microseconds; its persisted   *)
(* form keeps the seconds only.                                            *)
(***************************************************************************)
EXTENDS Integers, Sequences, FiniteSets, TLC

VARIABLES
    tasks,      \* TaskService._tasks: insertion-ordered dict, a sequence of [key, task]
    counter,    \* TaskService._id_generator's counter
    file,       \* the content of the storage file
    alive,      \* TRUE when a TaskService instance has been constructed
    ret,        \* what the last call returned or raised
    issued,     \* the ids returned by the successful adds so far, in order
    other       \* the second store instance over the same file, while the
                \* first is the one being called: its _tasks, counter, liveness

vars == <<tasks, counter, file, alive, ret, issued, other>>

(***************************************************************************)
(* Bounds of the model.                                                    *)
(***************************************************************************)
\* The most ids one run allocates (add is disabled beyond it).
MaxAdds == 2
\* The most task records a hand-made storage file holds.
MaxFileTasks == 2

(***************************************************************************)
(* Strings.                                                                *)
(***************************************************************************)
DigitChars == <<"0", "1", "2", "3", "4", "5", "6", "7", "8", "9">>

IsDigit(c) == \E i \in 1..10 : DigitChars[i] = c

IsSpace(c) == c \in {" ", "\t", "\n"}

\* str.upper() on one character
UpperChar(c) ==
    CASE c = "t" -> "T"
      [] c = "x" -> "X"
      [] c = "a" -> "A"
      [] c = "b" -> "B"
      [] c = "d" -> "D"
      [] OTHER -> c

\* str.upper()
Upper(s) == [i \in 1..Len(s) |-> UpperChar(s[i])]

\* "c" * n
Repeat(c, n) == [i \in 1..n |-> c]

RECURSIVE LStrip(_)
\* str.lstrip()
LStrip(s) == IF s # <<>> /\ IsSpace(Head(s)) THEN LStrip(Tail(s)) ELSE s

RECURSIVE RStrip(_)
\* str.rstrip()
RStrip(s) ==
    IF s # <<>> /\ IsSpace(s[Len(s)]) THEN RStrip(SubSeq(s, 1, Len(s) - 1)) ELSE s

\* str.strip()
Strip(s) == RStrip(LStrip(s))

RECURSIVE DigitsValue(_)
\* the number a string of decimal digits denotes
DigitsValue(s) ==
    IF s = <<>> THEN 0
    ELSE 10 * DigitsValue(SubSeq(s, 1, Len(s) - 1))
         + (CHOOSE i \in 0..9 : DigitChars[i + 1] = s[Len(s)])

RECURSIVE DecimalDigits(_)
\* the decimal digits of a natural number, most significant first
DecimalDigits(n) ==
    IF n < 10 THEN <<DigitChars[n + 1]>>
    ELSE DecimalDigits(n \div 10) \o <<DigitChars[(n % 10) + 1]>>

\* f"{n:0{width}d}": zero-padded on the left to at least width digits
ZeroPad(n, width) ==
    LET d == DecimalDigits(n)
    IN IF Len(d) >= width THEN d ELSE Repeat("0", width - Len(d)) \o d

(***************************************************************************)
(* Validation (src/lib/validators.py) and the failure conditions.          *)
(***************************************************************************)
MAX_TITLE_LENGTH == 200
MAX_DESCRIPTION_LENGTH == 1000

Ok(v) == [ok |-> TRUE, value |-> v, error |-> "none"]
Fail(e) == [ok |-> FALSE, value |-> <<>>, error |-> e]

validate_title(raw) ==
    LET t == Strip(raw)
    IN IF Len(t) = 0 THEN Fail("EmptyTitle")
       ELSE IF Len(t) > MAX_TITLE_LENGTH THEN Fail("TitleTooLong")
       ELSE Ok(t)

validate_description(raw) ==
    IF Len(raw) > MAX_DESCRIPTION_LENGTH THEN Fail("DescriptionTooLong") ELSE Ok(raw)

validate_task_id(raw) ==
    IF /\ Len(raw) >= 2
       /\ raw[1] \in {"T", "t"}
       /\ \A i \in 2..Len(raw) : IsDigit(raw[i])
    THEN Ok(Upper(raw))
    ELSE Fail("InvalidIDFormat")

(***************************************************************************)
(* Identifier allocator (src/lib/id_generator.py).                         *)
(***************************************************************************)
\* the id IDGenerator.next() returns once its counter is n
FormatId(n) == <<"T">> \o ZeroPad(n, 3)

(***************************************************************************)
(* Task entity.                                                            *)
(***************************************************************************)
\* Task(id, title, description, completed, created_at) with __post_init__
Task(id, title, description, completed, created_at) ==
    [id |-> Upper(id), title |-> title, description |-> description,
     completed |-> completed, created_at |-> created_at]

\* Task.format_created_at: strftime("%Y-%m-%dT%H:%M:%S") drops the microseconds
format_created_at(task) == <<"iso", task.created_at.sec>>

\* datetime.fromisoformat on a string of the persisted form
fromisoformat(s) ==
    IF s[1] = "iso" THEN [ok |-> TRUE, value |-> [sec |-> s[2], usec |-> 0]]
    ELSE [ok |-> FALSE, value |-> [sec |-> 0, usec |-> 0]]

(***************************************************************************)
(* The insertion-ordered dict TaskService._tasks.                          *)
(***************************************************************************)
DictHas(d, k) == \E i \in 1..Len(d) : d[i].key = k

DictIndex(d, k) == CHOOSE i \in 1..Len(d) : d[i].key = k

\* d[k]
DictGet(d, k) == d[DictIndex(d, k)].task

\* d[k] = t: a present key keeps its place, a new key goes last
DictSet(d, k, t) ==
    IF DictHas(d, k)
    THEN [d EXCEPT ![DictIndex(d, k)] = [key |-> k, task |-> t]]
    ELSE Append(d, [key |-> k, task |-> t])

\* d.pop(k)
DictPop(d, k) ==
    LET i == DictIndex(d, k)
    IN SubSeq(d, 1, i - 1) \o SubSeq(d, i + 1, Len(d))

DictKeys(d) == {d[i].key : i \in 1..Len(d)}

(***************************************************************************)
(* Persistence: the storage file, TaskService._save and _load.             *)
(***************************************************************************)
AbsentFile == [kind |-> "absent", data |-> <<>>]
InvalidJsonFile == [kind |-> "invalid_json", data |-> <<>>]
NonObjectFile == [kind |-> "json_non_object", data |-> <<>>]
ObjectFile(obj) == [kind |-> "json_object", data |-> obj]

\* the record _save writes for one task
TaskRecord(task) ==
    [id |-> task.id, title |-> task.title, description |-> task.description,
     completed |-> task.completed, created_at |-> format_created_at(task)]

\* the file after TaskService._save
SavedFile(d, n) ==
    ObjectFile([next_id_counter |-> n,
                tasks |-> [i \in 1..Len(d) |-> TaskRecord(d[i].task)]])

\* dict.get(key, default) on a JSON object
JsonGet(obj, k, default) == IF k \in DOMAIN obj THEN obj[k] ELSE default

\* the Task(...) call of _load for one record: the arguments are evaluated in
\* order, so a missing key raises KeyError before a bad timestamp raises ValueError
RestoreTask(rec) ==
    IF "id" \notin DOMAIN rec \/ "title" \notin DOMAIN rec \/ "created_at" \notin DOMAIN rec
    THEN [raised |-> "KeyError", task |-> <<>>]
    ELSE LET dt == fromisoformat(rec.created_at)
         IN IF ~dt.ok THEN [raised |-> "ValueError", task |-> <<>>]
            ELSE [raised |-> "none",
                  task |-> Task(rec.id, rec.title,
                                JsonGet(rec, "description", <<>>),
                                JsonGet(rec, "completed", FALSE),
                                dt.value)]

RECURSIVE RestoreTasks(_, _)
\* the loop of _load over data["tasks"]: each restored task is put in the dict
\* before the next record is read, and an exception leaves the dict as it is
RestoreTasks(recs, d) ==
    IF recs = <<>> THEN [raised |-> "none", tasks |-> d]
    ELSE LET r == RestoreTask(Head(recs))
         IN IF r.raised # "none" THEN [raised |-> r.raised, tasks |-> d]
            ELSE RestoreTasks(Tail(recs), DictSet(d, r.task.id, r.task))

\* a plausible slip in _load: the counter is taken from the number of records
RestoredCounterFromTasks(data) == Len(JsonGet(data, "tasks", <<>>))

\* the counter _load hands to set_counter
RestoredCounter(data) == JsonGet(data, "next_id_counter", 0)

\* TaskService.__init__ followed by _load: the dict, the counter and the
\* exception that leaves the constructor ("none" when it returns)
Load(f) ==
    IF f.kind = "absent" THEN [raised |-> "none", tasks |-> <<>>, counter |-> 0]
    ELSE IF f.kind = "invalid_json" THEN [raised |-> "none", tasks |-> <<>>, counter |-> 0]
    ELSE IF f.kind = "json_non_object"
    THEN [raised |-> "AttributeError", tasks |-> <<>>, counter |-> 0]
    ELSE LET r == RestoreTasks(JsonGet(f.data, "tasks", <<>>), <<>>)
         IN IF r.raised = "none"
            THEN [raised |-> "none", tasks |-> r.tasks,
                  counter |-> RestoredCounter(f.data)]
            ELSE IF r.raised = "KeyError"
            THEN [raised |-> "none", tasks |-> r.tasks, counter |-> 0]
            ELSE [raised |-> r.raised, tasks |-> r.tasks, counter |-> 0]

(***************************************************************************)
(* Inputs.                                                                 *)
(***************************************************************************)
\* an optional argument: None, or a string
None == [some |-> FALSE, v |-> <<>>]
Some(s) == [some |-> TRUE, v |-> s]

\* titles a caller passes: "a", " b ", "  " and 201 characters
TitleInputs ==
    {<<"a">>, <<" ", "b", " ">>, <<" ", " ">>, Repeat("x", MAX_TITLE_LENGTH + 1)}

\* descriptions a caller passes: "", "d" and 1001 characters
DescriptionInputs == {<<>>, <<"d">>, Repeat("x", MAX_DESCRIPTION_LENGTH + 1)}

\* ids a caller passes: every id the run can allocate (each names no task
\* before it is allocated and after it is deleted), the first one in lowercase,
\* and a malformed one ("X001")
IdInputs ==
    {FormatId(k) : k \in 1..MaxAdds} \cup {<<"t", "0", "0", "1">>, <<"X", "0", "0", "1">>}

\* what datetime.now() returns when the store's counter is c: the clock moves
\* on between two adds, and shows a whole second at every second add only
Now(c) == [sec |-> c + 1, usec |-> IF c % 2 = 0 THEN 500000 ELSE 0]

(***************************************************************************)
(* What a call returned or raised.                                         *)
(***************************************************************************)
\* op: the operation; ok: it returned; error: the failure it raised; id: the id
\* of the task it returned, or the id a TaskNotFound carries; changed: the flag
\* mark_complete / mark_incomplete return; wrote: _save ran
Outcome(op, ok, error, id, changed, wrote) ==
    [op |-> op, ok |-> ok, error |-> error, id |-> id, changed |-> changed,
     wrote |-> wrote]

Returned(op, id, changed, wrote) == Outcome(op, TRUE, "none", id, changed, wrote)

Raised(op, error, id) == Outcome(op, FALSE, error, id, FALSE, FALSE)

ValidationErrors == {"EmptyTitle", "TitleTooLong", "DescriptionTooLong"}

FailureConditions ==
    ValidationErrors \cup {"InvalidIDFormat", "TaskNotFound", "NoChangesSpecified"}

(***************************************************************************)
(* TaskService: the store's operations.                                    *)
(***************************************************************************)
\* a plausible slip in get: the dict is searched for the id as the caller
\* wrote it, not for the normalized id
get_raw(d, raw) ==
    LET v == validate_task_id(raw)
    IN IF ~v.ok THEN [ok |-> FALSE, error |-> v.error, id |-> <<>>]
       ELSE IF ~DictHas(d, raw) THEN [ok |-> FALSE, error |-> "TaskNotFound", id |-> v.value]
       ELSE [ok |-> TRUE, error |-> "none", id |-> raw]

\* a plausible slip in get: the id is normalized and looked up without being
\* validated
get_unvalidated(d, raw) ==
    IF ~DictHas(d, Upper(raw)) THEN [ok |-> FALSE, error |-> "TaskNotFound", id |-> Upper(raw)]
    ELSE [ok |-> TRUE, error |-> "none", id |-> Upper(raw)]

\* a plausible slip in get: the dict is searched for the id of the same
\* number in the allocator's format, so that T1 and T0001 find T001
get_by_number(d, raw) ==
    LET v == validate_task_id(raw)
        id == IF v.ok THEN FormatId(DigitsValue(Tail(v.value))) ELSE <<>>
    IN IF ~v.ok THEN [ok |-> FALSE, error |-> v.error, id |-> <<>>]
       ELSE IF ~DictHas(d, id) THEN [ok |-> FALSE, error |-> "TaskNotFound", id |-> v.value]
       ELSE [ok |-> TRUE, error |-> "none", id |-> id]

\* TaskService.get: the validated id and the lookup
get(d, raw) ==
    LET v == validate_task_id(raw)
    IN IF ~v.ok THEN [ok |-> FALSE, error |-> v.error, id |-> <<>>]
       ELSE IF ~DictHas(d, v.value) THEN [ok |-> FALSE, error |-> "TaskNotFound", id |-> v.value]
       ELSE [ok |-> TRUE, error |-> "none", id |-> v.value]

\* a plausible slip in add: the id is numbered by the tasks stored, not by the
\* allocator's counter
AddEffectCountsTasks(d, c, title, description, now) ==
    LET n == Len(d) + 1
        task_id == FormatId(n)
        task == Task(task_id, title, description, FALSE, now)
        d2 == DictSet(d, task_id, task)
    IN [tasks |-> d2, counter |-> n, file |-> SavedFile(d2, n), id |-> task.id]

\* a plausible slip in the id's format: the number is cut to its last three
\* digits
AddEffectTruncatesId(d, c, title, description, now) ==
    LET n == c + 1
        task_id == <<"T">> \o ZeroPad(n % 1000, 3)
        task == Task(task_id, title, description, FALSE, now)
        d2 == DictSet(d, task_id, task)
    IN [tasks |-> d2, counter |-> n, file |-> SavedFile(d2, n), id |-> task.id]

\* a plausible slip in add: the allocator is first moved up to the counter
\* the storage file holds, so that an id another instance saved is skipped
AddEffectReadsFileCounter(d, c, title, description, now) ==
    LET saved == IF file.kind = "json_object"
                 THEN JsonGet(file.data, "next_id_counter", 0) ELSE 0
        n == (IF saved > c THEN saved ELSE c) + 1
        task_id == FormatId(n)
        task == Task(task_id, title, description, FALSE, now)
        d2 == DictSet(d, task_id, task)
    IN [tasks |-> d2, counter |-> n, file |-> SavedFile(d2, n), id |-> task.id]

\* add, after validation: allocate the id, create the task, store it, save
AddEffect(d, c, title, description, now) ==
    LET n == c + 1
        task_id == FormatId(n)
        task == Task(task_id, title, description, FALSE, now)
        d2 == DictSet(d, task_id, task)
    IN [tasks |-> d2, counter |-> n, file |-> SavedFile(d2, n), id |-> task.id]

\* a plausible slip in update: the title is validated but the text assigned is
\* the caller's, not the validated one
UpdateEffectStoresRaw(d, c, f, id, title, description) ==
    LET task == DictGet(d, id)
        vt == IF title.some THEN validate_title(title.v) ELSE Ok(task.title)
        t1 == [task EXCEPT !.title = IF title.some THEN title.v ELSE task.title]
        d1 == DictSet(d, id, t1)
        vd == IF description.some THEN validate_description(description.v)
              ELSE Ok(task.description)
        t2 == [t1 EXCEPT !.description = vd.value]
        d2 == DictSet(d, id, t2)
    IN IF ~vt.ok THEN [tasks |-> d, file |-> f, error |-> vt.error]
       ELSE IF ~vd.ok THEN [tasks |-> d1, file |-> f, error |-> vd.error]
       ELSE [tasks |-> d2, file |-> SavedFile(d2, c), error |-> "none"]

\* a plausible slip in update: an omitted description is taken as add takes
\* it, as the empty text
UpdateEffectDefaultsDescription(d, c, f, id, title, description) ==
    LET task == DictGet(d, id)
        vt == IF title.some THEN validate_title(title.v) ELSE Ok(task.title)
        t1 == [task EXCEPT !.title = vt.value]
        d1 == DictSet(d, id, t1)
        vd == IF description.some THEN validate_description(description.v)
              ELSE Ok(<<>>)
        t2 == [t1 EXCEPT !.description = vd.value]
        d2 == DictSet(d, id, t2)
    IN IF ~vt.ok THEN [tasks |-> d, file |-> f, error |-> vt.error]
       ELSE IF ~vd.ok THEN [tasks |-> d1, file |-> f, error |-> vd.error]
       ELSE [tasks |-> d2, file |-> SavedFile(d2, c), error |-> "none"]

\* update, after the lookup: the title is validated and assigned, then the
\* description is validated and assigned, then the store is saved; a failed
\* validation raises where it stands
UpdateEffect(d, c, f, id, title, description) ==
    LET task == DictGet(d, id)
        vt == IF title.some THEN validate_title(title.v) ELSE Ok(task.title)
        t1 == [task EXCEPT !.title = vt.value]
        d1 == DictSet(d, id, t1)
        vd == IF description.some THEN validate_description(description.v)
              ELSE Ok(task.description)
        t2 == [t1 EXCEPT !.description = vd.value]
        d2 == DictSet(d, id, t2)
    IN IF ~vt.ok THEN [tasks |-> d, file |-> f, error |-> vt.error]
       ELSE IF ~vd.ok THEN [tasks |-> d1, file |-> f, error |-> vd.error]
       ELSE [tasks |-> d2, file |-> SavedFile(d2, c), error |-> "none"]

\* a plausible slip in delete: the store is saved before the task is popped
DeleteEffectSavesFirst(d, c, id) ==
    [tasks |-> DictPop(d, id), file |-> SavedFile(d, c)]

\* a plausible slip in delete: the oldest task is popped, not the one looked up
DeleteEffectPopsFirst(d, c, id) ==
    LET d2 == Tail(d)
    IN [tasks |-> d2, file |-> SavedFile(d2, c)]

\* a plausible slip in delete: the task's record is taken out of the file as
\* it stands, the other records of the file being kept, where _save rewrites
\* the file from memory
DeleteEffectEditsFile(d, c, id) ==
    LET d2 == DictPop(d, id)
        kept == IF file.kind = "json_object" /\ "tasks" \in DOMAIN file.data
                THEN SelectSeq(file.data.tasks, LAMBDA r : r.id # id)
                ELSE <<>>
    IN [tasks |-> d2,
        file |-> ObjectFile([next_id_counter |-> c, tasks |-> kept])]

\* delete, after the lookup: pop the task and save
DeleteEffect(d, c, id) ==
    LET d2 == DictPop(d, id)
    IN [tasks |-> d2, file |-> SavedFile(d2, c)]

\* a plausible slip in mark_complete / mark_incomplete: no early return when
\* the flag already has the value
MarkEffectAlwaysSaves(d, c, f, id, value) ==
    LET task == DictGet(d, id)
        d2 == DictSet(d, id, [task EXCEPT !.completed = value])
    IN [tasks |-> d2, file |-> SavedFile(d2, c), changed |-> TRUE]

\* a plausible slip in mark_incomplete, copied from mark_complete: the flag is
\* tested against and set to True whatever the operation
MarkEffectAlwaysCompletes(d, c, f, id, value) ==
    LET task == DictGet(d, id)
        d2 == DictSet(d, id, [task EXCEPT !.completed = TRUE])
    IN IF task.completed
       THEN [tasks |-> d, file |-> f, changed |-> FALSE]
       ELSE [tasks |-> d2, file |-> SavedFile(d2, c), changed |-> TRUE]

\* a plausible slip in mark_complete / mark_incomplete: the task is replaced
\* by a new Task object, whose created_at is the time of the call
MarkEffectRecreatesTask(d, c, f, id, value) ==
    LET task == DictGet(d, id)
        d2 == DictSet(d, id, Task(task.id, task.title, task.description, value, Now(c)))
    IN IF task.completed = value
       THEN [tasks |-> d, file |-> f, changed |-> FALSE]
       ELSE [tasks |-> d2, file |-> SavedFile(d2, c), changed |-> TRUE]

\* mark_complete / mark_incomplete, after the lookup: nothing when the flag
\* already has the value, else set it and save
MarkEffect(d, c, f, id, value) ==
    LET task == DictGet(d, id)
        d2 == DictSet(d, id, [task EXCEPT !.completed = value])
    IN IF task.completed = value
       THEN [tasks |-> d, file |-> f, changed |-> FALSE]
       ELSE [tasks |-> d2, file |-> SavedFile(d2, c), changed |-> TRUE]

(***************************************************************************)
(* Queries.                                                                *)
(***************************************************************************)
\* the characters of the model in the order of their code points
CodePointOrder ==
    <<" ", "0", "1", "2", "3", "4", "5", "6", "7", "8", "9",
      "A", "B", "D", "T", "X", "a", "b", "d", "t", "x">>

\* ord(c), up to a monotone renumbering
Ord(c) == CHOOSE i \in 1..Len(CodePointOrder) : CodePointOrder[i] = c

RECURSIVE StrLess(_, _)
\* a < b on Python strings: lexicographic by code point, a prefix first
StrLess(a, b) ==
    IF b = <<>> THEN FALSE
    ELSE IF a = <<>> THEN TRUE
    ELSE IF Head(a) # Head(b) THEN Ord(Head(a)) < Ord(Head(b))
    ELSE StrLess(Tail(a), Tail(b))

\* the values of the dict, in insertion order
DictValues(d) == [i \in 1..Len(d) |-> d[i].task]

RECURSIVE InsertById(_, _)
\* t put into the list l sorted by id, after the tasks whose id is not greater
InsertById(t, l) ==
    IF l = <<>> THEN <<t>>
    ELSE IF StrLess(t.id, Head(l).id) THEN <<t>> \o l
    ELSE <<Head(l)>> \o InsertById(t, Tail(l))

RECURSIVE SortedById(_)
\* sorted(l, key=lambda t: t.id): a stable sort by the id string
SortedById(l) ==
    IF l = <<>> THEN <<>>
    ELSE InsertById(l[Len(l)], SortedById(SubSeq(l, 1, Len(l) - 1)))

\* a plausible slip in list_all: the values are returned in insertion order
list_all_unsorted(d) == DictValues(d)

\* TaskService.list_all
list_all(d) == SortedById(DictValues(d))

\* no second store instance has been constructed
NoInstance == [tasks |-> <<>>, counter |-> 0, alive |-> FALSE]

\* a plausible slip in list_pending: the dict's values are filtered, without
\* going through list_all
list_pending_unsorted(d) == SelectSeq(DictValues(d), LAMBDA t : ~t.completed)

\* TaskService.list_pending
list_pending(d) == SelectSeq(list_all(d), LAMBDA t : ~t.completed)

\* TaskService.list_completed
list_completed(d) == SelectSeq(list_all(d), LAMBDA t : t.completed)

\* TaskService.count
count(d) == Len(d)

Init ==
    /\ tasks = <<>>
    /\ counter = 0
    /\ file = AbsentFile
    /\ alive = TRUE
    /\ ret = Returned("init", <<>>, FALSE, FALSE)
    /\ issued = <<>>
    /\ other = NoInstance

\* a plausible slip in add: the id is taken from the allocator before the texts
\* are validated
AddCallAllocatesFirst(title, description) ==
    /\ alive
    /\ LET vt == validate_title(title)
           vd == validate_description(description)
       IN IF ~vt.ok \/ ~vd.ok
          THEN /\ ret' = Raised("add", IF ~vt.ok THEN vt.error ELSE vd.error, <<>>)
               /\ counter' = counter + 1
               /\ UNCHANGED <<tasks, file, alive, issued, other>>
          ELSE LET e == AddEffect(tasks, counter, vt.value, vd.value, Now(counter))
               IN /\ tasks' = e.tasks
                  /\ counter' = e.counter
                  /\ file' = e.file
                  /\ ret' = Returned("add", e.id, FALSE, TRUE)
                  /\ issued' = Append(issued, e.id)
                  /\ UNCHANGED <<alive, other>>

\* a plausible slip in add: the title is validated but the Task is made with
\* the title as the caller wrote it
AddCallStoresRawTitle(title, description) ==
    /\ alive
    /\ LET vt == validate_title(title)
           vd == validate_description(description)
       IN IF ~vt.ok \/ ~vd.ok
          THEN /\ ret' = Raised("add", IF ~vt.ok THEN vt.error ELSE vd.error, <<>>)
               /\ UNCHANGED <<tasks, counter, file, alive, issued, other>>
          ELSE LET e == AddEffect(tasks, counter, title, vd.value, Now(counter))
               IN /\ tasks' = e.tasks
                  /\ counter' = e.counter
                  /\ file' = e.file
                  /\ ret' = Returned("add", e.id, FALSE, TRUE)
                  /\ issued' = Append(issued, e.id)
                  /\ UNCHANGED <<alive, other>>

\* a plausible slip in add: the description is trimmed as the title is
AddCallTrimsDescription(title, description) ==
    /\ alive
    /\ LET vt == validate_title(title)
           vd == validate_description(description)
       IN IF ~vt.ok \/ ~vd.ok
          THEN /\ ret' = Raised("add", IF ~vt.ok THEN vt.error ELSE vd.error, <<>>)
               /\ UNCHANGED <<tasks, counter, file, alive, issued, other>>
          ELSE LET e == AddEffect(tasks, counter, vt.value, Strip(vd.value), Now(counter))
               IN /\ tasks' = e.tasks
                  /\ counter' = e.counter
                  /\ file' = e.file
                  /\ ret' = Returned("add", e.id, FALSE, TRUE)
                  /\ issued' = Append(issued, e.id)
                  /\ UNCHANGED <<alive, other>>

\* TaskService.add, called on the live store
AddCall(title, description) ==
    /\ alive
    /\ LET vt == validate_title(title)
           vd == validate_description(description)
       IN IF ~vt.ok \/ ~vd.ok
          THEN /\ ret' = Raised("add", IF ~vt.ok THEN vt.error ELSE vd.error, <<>>)
               /\ UNCHANGED <<tasks, counter, file, alive, issued, other>>
          ELSE LET e == AddEffect(tasks, counter, vt.value, vd.value, Now(counter))
               IN /\ tasks' = e.tasks
                  /\ counter' = e.counter
                  /\ file' = e.file
                  /\ ret' = Returned("add", e.id, FALSE, TRUE)
                  /\ issued' = Append(issued, e.id)
                  /\ UNCHANGED <<alive, other>>

Add(title, description) ==
    /\ counter < MaxAdds
    /\ AddCall(title, description)

\* a plausible slip in get: the store is saved after the lookup, as the
\* mutations do
GetSaves(raw) ==
    /\ alive
    /\ LET g == get(tasks, raw)
       IN ret' = IF g.ok THEN Returned("get", g.id, FALSE, FALSE)
                 ELSE Raised("get", g.error, g.id)
    /\ file' = SavedFile(tasks, counter)
    /\ UNCHANGED <<tasks, counter, alive, issued, other>>

\* TaskService.get, called on the live store
Get(raw) ==
    /\ alive
    /\ LET g == get(tasks, raw)
       IN ret' = IF g.ok THEN Returned("get", g.id, FALSE, FALSE)
                 ELSE Raised("get", g.error, g.id)
    /\ UNCHANGED <<tasks, counter, file, alive, issued, other>>

\* a plausible slip in update: the id is validated and looked up before the
\* check that a change was given
UpdateChecksIdFirst(raw, title, description) ==
    /\ alive
    /\ LET g == get(tasks, raw)
       IN IF ~g.ok
          THEN /\ ret' = Raised("update", g.error, g.id)
               /\ UNCHANGED <<tasks, file>>
          ELSE IF ~title.some /\ ~description.some
          THEN /\ ret' = Raised("update", "NoChangesSpecified", <<>>)
               /\ UNCHANGED <<tasks, file>>
          ELSE LET e == UpdateEffect(tasks, counter, file, g.id, title, description)
               IN /\ tasks' = e.tasks
                  /\ file' = e.file
                  /\ ret' = IF e.error = "none"
                            THEN Returned("update", g.id, FALSE, TRUE)
                            ELSE Raised("update", e.error, g.id)
    /\ UNCHANGED <<counter, alive, issued, other>>

\* TaskService.update, called on the live store
Update(raw, title, description) ==
    /\ alive
    /\ LET g == get(tasks, raw)
       IN IF ~title.some /\ ~description.some
          THEN /\ ret' = Raised("update", "NoChangesSpecified", <<>>)
               /\ UNCHANGED <<tasks, file>>
          ELSE IF ~g.ok
          THEN /\ ret' = Raised("update", g.error, g.id)
               /\ UNCHANGED <<tasks, file>>
          ELSE LET e == UpdateEffect(tasks, counter, file, g.id, title, description)
               IN /\ tasks' = e.tasks
                  /\ file' = e.file
                  /\ ret' = IF e.error = "none"
                            THEN Returned("update", g.id, FALSE, TRUE)
                            ELSE Raised("update", e.error, g.id)
    /\ UNCHANGED <<counter, alive, issued, other>>

\* a plausible slip in delete: the id is normalized and looked up without
\* being validated
DeleteLooksUpUnvalidated(raw) ==
    /\ alive
    /\ LET id == Upper(raw)
       IN IF ~DictHas(tasks, id)
          THEN /\ ret' = Raised("delete", "TaskNotFound", id)
               /\ UNCHANGED <<tasks, file>>
          ELSE LET e == DeleteEffect(tasks, counter, id)
               IN /\ tasks' = e.tasks
                  /\ file' = e.file
                  /\ ret' = Returned("delete", id, FALSE, TRUE)
    /\ UNCHANGED <<counter, alive, issued, other>>

\* a plausible slip in delete: the id of the task added last is given back to
\* the allocator when that task is deleted
DeleteReleasesLastId(raw) ==
    /\ alive
    /\ LET v == validate_task_id(raw)
       IN IF ~v.ok
          THEN /\ ret' = Raised("delete", v.error, <<>>)
               /\ UNCHANGED <<tasks, file, counter>>
          ELSE IF ~DictHas(tasks, v.value)
          THEN /\ ret' = Raised("delete", "TaskNotFound", v.value)
               /\ UNCHANGED <<tasks, file, counter>>
          ELSE LET c == IF v.value = FormatId(counter) THEN counter - 1 ELSE counter
                   e == DeleteEffect(tasks, c, v.value)
               IN /\ tasks' = e.tasks
                  /\ file' = e.file
                  /\ counter' = c
                  /\ ret' = Returned("delete", v.value, FALSE, TRUE)
    /\ UNCHANGED <<alive, issued, other>>

\* TaskService.delete, called on the live store
Delete(raw) ==
    /\ alive
    /\ LET v == validate_task_id(raw)
       IN IF ~v.ok
          THEN /\ ret' = Raised("delete", v.error, <<>>)
               /\ UNCHANGED <<tasks, file>>
          ELSE IF ~DictHas(tasks, v.value)
          THEN /\ ret' = Raised("delete", "TaskNotFound", v.value)
               /\ UNCHANGED <<tasks, file>>
          ELSE LET e == DeleteEffect(tasks, counter, v.value)
               IN /\ tasks' = e.tasks
                  /\ file' = e.file
                  /\ ret' = Returned("delete", v.value, FALSE, TRUE)
    /\ UNCHANGED <<counter, alive, issued, other>>

Mark(op, raw, value) ==
    /\ alive
    /\ LET g == get(tasks, raw)
       IN IF ~g.ok
          THEN /\ ret' = Raised(op, g.error, g.id)
               /\ UNCHANGED <<tasks, file>>
          ELSE LET e == MarkEffect(tasks, counter, file, g.id, value)
               IN /\ tasks' = e.tasks
                  /\ file' = e.file
                  /\ ret' = Returned(op, g.id, e.changed, e.changed)
    /\ UNCHANGED <<counter, alive, issued, other>>

MarkComplete(raw) == Mark("mark_complete", raw, TRUE)

MarkIncomplete(raw) == Mark("mark_incomplete", raw, FALSE)

\* TaskService.list_all, called on the live store: the list list_all(tasks)
\* goes to the caller, built from the dict's values; nothing is assigned
ListAll ==
    /\ alive
    /\ ret' = Returned("list_all", <<>>, FALSE, FALSE)
    /\ UNCHANGED <<tasks, counter, file, alive, issued, other>>

\* TaskService.list_pending, called on the live store
ListPending ==
    /\ alive
    /\ ret' = Returned("list_pending", <<>>, FALSE, FALSE)
    /\ UNCHANGED <<tasks, counter, file, alive, issued, other>>

\* TaskService.list_completed, called on the live store
ListCompleted ==
    /\ alive
    /\ ret' = Returned("list_completed", <<>>, FALSE, FALSE)
    /\ UNCHANGED <<tasks, counter, file, alive, issued, other>>

\* TaskService.count, called on the live store
Count ==
    /\ alive
    /\ ret' = Returned("count", <<>>, FALSE, FALSE)
    /\ UNCHANGED <<tasks, counter, file, alive, issued, other>>

\* TaskService(storage_file) over the file as it is: a new instance replaces
\* the old one, or the constructor raises and there is no instance
Construct ==
    LET r == Load(file)
    IN /\ alive' = (r.raised = "none")
       /\ tasks' = IF r.raised = "none" THEN r.tasks ELSE <<>>
       /\ counter' = IF r.raised = "none" THEN r.counter ELSE 0
       /\ ret' = IF r.raised = "none" THEN Returned("construct", <<>>, FALSE, FALSE)
                 ELSE Raised("construct", r.raised, <<>>)
       /\ UNCHANGED <<file, issued, other>>

\* the process ends and the next invocation constructs its store
Restart == alive /\ Construct

Optional(S) == {None} \cup {Some(s) : s \in S}

Next ==
    \/ \E t \in TitleInputs, d \in DescriptionInputs : Add(t, d)
    \/ \E i \in IdInputs : Get(i)
    \/ \E i \in IdInputs, t \in Optional(TitleInputs), d \in Optional(DescriptionInputs) :
          Update(i, t, d)
    \/ \E i \in IdInputs : Delete(i)
    \/ \E i \in IdInputs : MarkComplete(i)
    \/ \E i \in IdInputs : MarkIncomplete(i)
    \/ Restart

Spec == Init /\ [][Next]_vars

(***************************************************************************)
(* The store's calls with accepted texts and ids in either case.           *)
(***************************************************************************)
\* the id numbered k as a caller writes it in lowercase
LowerId(k) == <<"t">> \o ZeroPad(k, 3)

CallTitles == {<<"a">>, <<" ", "b", " ">>}

CallDescriptions == {<<>>, <<"d">>}

CallIds == IdInputs \cup {LowerId(k) : k \in 1..MaxAdds}

NextCalls ==
    \/ \E t \in CallTitles, d \in CallDescriptions : Add(t, d)
    \/ \E i \in CallIds : Get(i)
    \/ \E i \in CallIds, t \in Optional(CallTitles), d \in Optional(CallDescriptions) :
          Update(i, t, d)
    \/ \E i \in CallIds : Delete(i)
    \/ \E i \in CallIds : MarkComplete(i)
    \/ \E i \in CallIds : MarkIncomplete(i)

SpecCalls == Init /\ [][NextCalls]_vars

(***************************************************************************)
(* The store's calls with its queries between them.                        *)
(***************************************************************************)
\* the text a call between queries passes as a title or as a description
ReadTexts == {<<"d">>}

\* the ids a call between queries passes: one a task gets, and a malformed one
ReadIds == {FormatId(1), <<"X", "0", "0", "1">>}

NextReads ==
    \/ \E t \in ReadTexts, d \in CallDescriptions : Add(t, d)
    \/ \E i \in IdInputs : Get(i)
    \/ \E i \in ReadIds, t \in Optional(ReadTexts) : Update(i, t, None)
    \/ \E i \in ReadIds : Delete(i)
    \/ \E i \in ReadIds : MarkComplete(i)
    \/ \E i \in ReadIds : MarkIncomplete(i)
    \/ ListAll
    \/ ListPending
    \/ ListCompleted
    \/ Count

SpecReads == Init /\ [][NextReads]_vars

(***************************************************************************)
(* The store's calls with ids that differ from a stored id in their zeros. *)
(***************************************************************************)
\* T1 and T0001: the number of the first id, written with fewer and with more
\* digits than the allocator writes
ShortAndLongIds == {<<"T", "1">>, <<"T", "0", "0", "0", "1">>}

\* the ids passed: the first id as allocated, T1 and T0001, and t1
LookupIds == {FormatId(1)} \cup ShortAndLongIds \cup {<<"t", "1">>}

NextLookup ==
    \/ \E d \in CallDescriptions : Add(<<"a">>, d)
    \/ \E i \in LookupIds : Get(i)
    \/ \E i \in LookupIds, t \in Optional(ReadTexts), d \in Optional(ReadTexts) :
          Update(i, t, d)
    \/ \E i \in LookupIds : Delete(i)
    \/ \E i \in LookupIds : MarkComplete(i)
    \/ \E i \in LookupIds : MarkIncomplete(i)

SpecLookup == Init /\ [][NextLookup]_vars

(***************************************************************************)
(* Two store instances (two processes) over the same storage file.         *)
(***************************************************************************)
\* both processes have constructed their store over the file, still absent
InitTwo ==
    /\ tasks = <<>>
    /\ counter = 0
    /\ file = AbsentFile
    /\ alive = TRUE
    /\ ret = Returned("init", <<>>, FALSE, FALSE)
    /\ issued = <<>>
    /\ other = [tasks |-> <<>>, counter |-> 0, alive |-> TRUE]

\* the next call is made in the other process: its instance becomes the one
\* being called; neither memory nor the file is touched
Switch ==
    /\ alive
    /\ other.alive
    /\ tasks' = other.tasks
    /\ counter' = other.counter
    /\ other' = [tasks |-> tasks, counter |-> counter, alive |-> alive]
    /\ ret' = Returned("switch", <<>>, FALSE, FALSE)
    /\ UNCHANGED <<file, alive, issued>>

NextTwo ==
    \/ \E t \in CallTitles : Add(t, <<>>)
    \/ Delete(FormatId(1))
    \/ MarkComplete(FormatId(1))
    \/ Restart
    \/ Switch

SpecTwo == InitTwo /\ [][NextTwo]_vars

(***************************************************************************)
(* The store's calls with texts and ids at the limits of the validators.   *)
(***************************************************************************)
BoundaryTitles ==
    {<<>>, <<" ">>, <<" ", "\t", "\n">>, <<"a">>, <<" ", "a", " ", "b", "\t">>,
     Repeat("x", MAX_TITLE_LENGTH),
     <<" ">> \o Repeat("x", MAX_TITLE_LENGTH) \o <<" ">>,
     Repeat("x", MAX_TITLE_LENGTH + 1),
     <<" ">> \o Repeat("x", MAX_TITLE_LENGTH + 1)}

BoundaryDescriptions ==
    {<<>>, <<" ">>, <<" ", "d", " ">>,
     Repeat("x", MAX_DESCRIPTION_LENGTH),
     Repeat("x", MAX_DESCRIPTION_LENGTH + 1)}

BoundaryIds ==
    {<<>>, <<"T">>, <<"t">>, <<"T", "a", "b", "c">>, <<"X", "0", "0", "1">>,
     <<"0", "0", "1">>, <<"T", "1", "a">>, <<" ", "T", "1">>, <<"T", "T", "1">>,
     <<"T", "1">>, <<"t", "1">>, <<"T", "1", "2", "3", "4", "5">>,
     <<"T", "0", "0", "1">>, <<"t", "0", "0", "1">>}

\* adds made with the texts at the limits
MaxBoundaryAdds == 1

\* a task is added with texts at the limits
BoundaryAdd(title, description) ==
    /\ counter < MaxBoundaryAdds
    /\ AddCall(title, description)

NextBoundary ==
    \/ \E t \in BoundaryTitles, d \in BoundaryDescriptions : BoundaryAdd(t, d)
    \/ \E i \in BoundaryIds : Get(i)
    \/ \E t \in Optional(BoundaryTitles), d \in Optional(BoundaryDescriptions) :
          Update(FormatId(1), t, d)

SpecBoundary == Init /\ [][NextBoundary]_vars

(***************************************************************************)
(* A caller that assigns to the Task objects the store returned.           *)
(***************************************************************************)
\* a text the caller assigns and never passes to add or update
CallerText == <<"z">>

CallerFields == {"title", "description", "completed"}

\* the caller assigns a field of the Task that add, get or list_all returned
\* for the stored id: the object returned is the one the dict holds (Task is
\* a plain mutable dataclass), so the dict's task changes; nothing is saved
CallerSets(id, field) ==
    /\ alive
    /\ DictHas(tasks, id)
    /\ LET task == DictGet(tasks, id)
           set == IF field = "title" THEN [task EXCEPT !.title = CallerText]
                  ELSE IF field = "description" THEN [task EXCEPT !.description = CallerText]
                  ELSE [task EXCEPT !.completed = TRUE]
       IN tasks' = DictSet(tasks, id, set)
    /\ ret' = Returned("caller_set", id, FALSE, FALSE)
    /\ UNCHANGED <<counter, file, alive, issued, other>>

\* the store is called with texts other than the caller's and never asked to
\* complete a task
NextCaller ==
    \/ \E t \in CallTitles : Add(t, <<>>)
    \/ \E i \in {FormatId(k) : k \in 1..MaxAdds} : Update(i, None, Some(<<"d">>))
    \/ \E i \in {FormatId(k) : k \in 1..MaxAdds} : Delete(i)
    \/ \E i \in {FormatId(k) : k \in 1..MaxAdds}, f \in CallerFields : CallerSets(i, f)

SpecCaller == Init /\ [][NextCaller]_vars

(***************************************************************************)
(* The command line (src/cli/main.py): one process per command.            *)
(***************************************************************************)
CliCommands == {"add", "view", "update", "delete", "complete", "incomplete"}

\* the store operation each command calls
CliOperation(command) ==
    CASE command = "add" -> "add"
      [] command = "view" -> "get"
      [] command = "update" -> "update"
      [] command = "delete" -> "delete"
      [] command = "complete" -> "mark_complete"
      [] command = "incomplete" -> "mark_incomplete"

\* the exceptions the command's try statement has an except clause for
CliCaught(command) ==
    CASE command = "add" -> {"EmptyTitle", "TitleTooLong", "DescriptionTooLong"}
      [] command = "view" -> {"InvalidIDFormat", "TaskNotFound"}
      [] command = "update" ->
            {"InvalidIDFormat", "TaskNotFound", "NoChangesSpecified",
             "EmptyTitle", "TitleTooLong", "DescriptionTooLong"}
      [] command = "delete" -> {"InvalidIDFormat", "TaskNotFound"}
      [] command = "complete" -> {"InvalidIDFormat", "TaskNotFound"}
      [] command = "incomplete" -> {"InvalidIDFormat", "TaskNotFound"}

\* the exit code and the kind of message of the command's process, given the
\* outcome r of the last call it made to the store: get_service() is called
\* outside the try statement, so an exception of the constructor, like one no
\* except clause names, leaves the process with a traceback and exit code 1
CliOutcome(command, r) ==
    IF r.op = "construct"
    THEN [code |-> 1, message |-> "Traceback"]
    ELSE IF r.ok
    THEN [code |-> 0,
          message |-> IF command \in {"complete", "incomplete"} /\ ~r.changed
                      THEN "already" ELSE "done"]
    ELSE IF r.error \in CliCaught(command)
    THEN [code |-> 1, message |-> "Error: "]
    ELSE [code |-> 1, message |-> "Traceback"]

CliTitles == {<<"a">>, <<" ", " ">>, Repeat("x", MAX_TITLE_LENGTH + 1)}

CliDescriptions == {<<>>, Repeat("x", MAX_DESCRIPTION_LENGTH + 1)}

CliIds == {FormatId(1), FormatId(2), <<"X", "0", "0", "1">>}

\* the storage files the commands find: none, a JSON list, a record with a
\* created_at that is no timestamp, and a file the store wrote
CliFiles ==
    {AbsentFile, NonObjectFile,
     ObjectFile([next_id_counter |-> 1,
                 tasks |-> <<[id |-> FormatId(1), title |-> <<"a">>, description |-> <<>>,
                              completed |-> FALSE, created_at |-> <<"not a timestamp", 0>>]>>]),
     ObjectFile([next_id_counter |-> 1,
                 tasks |-> <<[id |-> FormatId(1), title |-> <<"a">>, description |-> <<>>,
                              completed |-> FALSE, created_at |-> <<"iso", 1>>]>>])}

InitCli ==
    /\ tasks = <<>>
    /\ counter = 0
    /\ file \in CliFiles
    /\ alive = FALSE
    /\ ret = Returned("init", <<>>, FALSE, FALSE)
    /\ issued = <<>>
    /\ other = NoInstance

\* a command's process starts and get_service() constructs the store
\* (Construct); then the command calls its store operation
NextCli ==
    \/ Construct
    \/ \E t \in CliTitles, d \in CliDescriptions : Add(t, d)
    \/ \E i \in CliIds : Get(i)
    \/ \E i \in CliIds, t \in Optional(CliTitles), d \in Optional(CliDescriptions) :
          Update(i, t, d)
    \/ \E i \in CliIds : Delete(i)
    \/ \E i \in CliIds : MarkComplete(i)
    \/ \E i \in CliIds : MarkIncomplete(i)

SpecCli == InitCli /\ [][NextCli]_vars

(***************************************************************************)
(* Construction over an arbitrary storage file.                            *)
(***************************************************************************)
\* obj without the keys in drop
Without(obj, drop) == [k \in (DOMAIN obj) \ drop |-> obj[k]]

\* a well-formed record of the task numbered k
GoodRecord(k) ==
    [id |-> FormatId(k), title |-> <<"a">>, description |-> <<"d">>,
     completed |-> TRUE, created_at |-> <<"iso", k>>]

\* the records a hand-made file holds for the task numbered k: well-formed,
\* lacking one required field, lacking the optional fields, or with a
\* created_at that is no timestamp
RecordsOf(k) ==
    {GoodRecord(k),
     Without(GoodRecord(k), {"id"}),
     Without(GoodRecord(k), {"title"}),
     Without(GoodRecord(k), {"created_at"}),
     Without(GoodRecord(k), {"description", "completed"}),
     [GoodRecord(k) EXCEPT !.created_at = <<"not a timestamp", 0>>]}

\* the greatest number that FormatId writes in three digits
LastPaddedNumber == 999

\* adds made to a store constructed over a hand-made file
MaxLoadAdds == 1

FileRecords == UNION {RecordsOf(k) : k \in 1..MaxFileTasks}

RecordLists == UNION {[1..n -> FileRecords] : n \in 0..MaxFileTasks}

\* the storage files a store is constructed over
FileContents ==
    {AbsentFile, InvalidJsonFile, NonObjectFile}
        \cup {ObjectFile([next_id_counter |-> MaxFileTasks, tasks |-> l]) : l \in RecordLists}
        \cup {ObjectFile([tasks |-> l]) : l \in RecordLists}
        \cup {ObjectFile([next_id_counter |-> MaxFileTasks])}
        \cup {ObjectFile([next_id_counter |-> LastPaddedNumber,
                          tasks |-> <<GoodRecord(LastPaddedNumber)>>])}
        \cup {ObjectFile([next_id_counter |-> LastPaddedNumber - 1])}

InitLoad ==
    /\ tasks = <<>>
    /\ counter = 0
    /\ file \in FileContents
    /\ alive = FALSE
    /\ ret = Returned("init", <<>>, FALSE, FALSE)
    /\ issued = <<>>
    /\ other = NoInstance

\* the first construction of a store over the file
FirstConstruct == ~alive /\ ret.op = "init" /\ Construct

\* a task is added to the store constructed over the file
LoadAdd == Len(issued) < MaxLoadAdds /\ AddCall(<<"a">>, <<>>)

\* the store constructed over the file is then used: tasks are added and deleted
NextLoad ==
    \/ FirstConstruct
    \/ LoadAdd
    \/ \E i \in IdInputs : Delete(i)

SpecLoad == InitLoad /\ [][NextLoad]_vars

(***************************************************************************)
(* Notions the properties use.                                             *)
(***************************************************************************)
\* the number of an id: T001 is numbered 1
IdNumber(id) == DigitsValue(Tail(id))

\* the fields of a task that the claims about the file's content compare
Content(t) ==
    [id |-> t.id, title |-> t.title, description |-> t.description,
     completed |-> t.completed]

\* the file holds exactly the in-memory state: as many records as tasks, the
\* same id, title, description and completed flag, and the counter; a store
\* that never saved has no file and is empty
FileHoldsMemory ==
    IF file.kind = "absent" THEN tasks = <<>> /\ counter = 0
    ELSE /\ file.kind = "json_object"
         /\ DOMAIN file.data = {"next_id_counter", "tasks"}
         /\ file.data.next_id_counter = counter
         /\ Len(file.data.tasks) = Len(tasks)
         /\ {Content(file.data.tasks[i]) : i \in 1..Len(tasks)}
                = {Content(tasks[i].task) : i \in 1..Len(tasks)}

\* the last call was a mutation that succeeded
MutationSucceeded ==
    /\ ret.ok
    /\ \/ ret.op \in {"add", "update", "delete"}
       \/ ret.op \in {"mark_complete", "mark_incomplete"} /\ ret.changed

(***************************************************************************)
(* Properties.                                                             *)
(***************************************************************************)
\* C1: from a fresh store the k-th successful add returns the id numbered k
\* (T001, T002, ...), so no add returns an id an earlier add returned, whatever
\* updates, deletes and completion changes happen in between.
C1_SequentialIds ==
    /\ \A k \in 1..Len(issued) :
          /\ IdNumber(issued[k]) = k
          /\ issued[k] = <<"T">> \o ZeroPad(k, 3)
    /\ \A j, k \in 1..Len(issued) : j # k => issued[j] # issued[k]

\* C1 witness: an add has just returned an id while the task of the first id is
\* no longer stored (it was deleted before this add).
C1_Witness ==
    /\ ret.op = "add" /\ ret.ok
    /\ Len(issued) >= 2
    /\ ret.id = issued[Len(issued)]
    /\ ~DictHas(tasks, issued[1])

\* C2: after every successful mutating operation the storage file holds exactly
\* the in-memory state: the same tasks with the same id, title, description
\* and completed flag, and the current counter.
C2_FileHoldsStateAfterMutation == MutationSucceeded => (ret.wrote /\ FileHoldsMemory)

\* C2 witness: a successful update of a task while another task is stored.
C2_Witness == ret.op = "update" /\ ret.ok /\ Len(tasks) >= 2 /\ FileHoldsMemory

\* the titles and descriptions a later get or list_all shows
TitlesAndDescriptions(d) ==
    {[id |-> d[i].key, title |-> d[i].task.title, description |-> d[i].task.description] :
        i \in 1..Len(d)}

\* C3: an update called with both a title and a description that fails the
\* validation of either one leaves every stored title and description exactly
\* as before the call (no partial update is visible).
C3_FailedUpdateIsAtomic ==
    [][\A i \in IdInputs, t \in TitleInputs, d \in DescriptionInputs :
          (Update(i, Some(t), Some(d)) /\ ret'.error \in ValidationErrors)
              => TitlesAndDescriptions(tasks') = TitlesAndDescriptions(tasks)]_vars

\* C4: an operation that returns a failure never writes the storage file, and
\* the file still equals the in-memory state after it as it did before it.
C4_FailureLeavesFileEqualToMemory ==
    [][(ret'.error \in FailureConditions)
          => /\ ~ret'.wrote
             /\ file' = file
             /\ (FileHoldsMemory => FileHoldsMemory')]_vars

\* C5: a new store constructed over the same storage file reproduces the
\* counter and every task's id, title, description, completed flag and
\* created_at of the store that wrote it.
C5_RoundTrip ==
    LET r == Load(file)
    IN alive => /\ r.raised = "none"
                /\ r.counter = counter
                /\ DictKeys(r.tasks) = DictKeys(tasks)
                /\ \A k \in DictKeys(tasks) : DictGet(r.tasks, k) = DictGet(tasks, k)

\* C6: a store constructed from a persisted file takes the file's counter n,
\* which is the counter of the store that wrote it; every successful add
\* returns the id numbered counter + 1, an id no earlier add returned (also
\* when tasks were deleted before the restart), and nothing but a successful
\* add and a construction changes the counter.
C6_CounterSurvivesRestart ==
    [][/\ (ret'.op = "construct" /\ ret'.ok /\ file.kind = "json_object")
            => /\ file.data.next_id_counter = counter
               /\ counter' = file.data.next_id_counter
       /\ (ret'.op = "add" /\ ret'.ok)
            => /\ IdNumber(ret'.id) = counter + 1
               /\ counter' = counter + 1
               /\ \A k \in 1..Len(issued) : issued[k] # ret'.id
       /\ (ret'.op # "construct" /\ ~(ret'.op = "add" /\ ret'.ok))
            => counter' = counter]_vars

\* C6 witness: an add has returned T002 in a store constructed from the file:
\* T001 is stored with the whole-second created_at a load gives it, not the
\* one it was created with.
C6_Witness ==
    /\ ret.op = "add" /\ ret.ok /\ IdNumber(ret.id) = 2
    /\ DictHas(tasks, FormatId(1))
    /\ DictGet(tasks, FormatId(1)).created_at # Now(0)
    /\ file.data.next_id_counter = 2

\* C7: a store constructed over a structurally corrupt file (malformed
\* content, or a task record lacking id, title or created_at, wherever it is
\* in the file) is empty: no tasks and counter 0.
StructurallyCorrupt(f) ==
    \/ f.kind \in {"invalid_json", "json_non_object"}
    \/ /\ f.kind = "json_object"
       /\ "tasks" \in DOMAIN f.data
       /\ \E i \in 1..Len(f.data.tasks) :
             {"id", "title", "created_at"} \ DOMAIN f.data.tasks[i] # {}

C7_CorruptFileLoadsEmpty ==
    (ret.op = "construct" /\ ret.ok /\ StructurallyCorrupt(file))
        => (tasks = <<>> /\ counter = 0)

\* C8: constructing a store completes normally whatever the file holds.
C8_ConstructionNeverRaises == ret.op = "construct" => ret.ok

\* C9: a successful delete removes exactly the task looked up: one task less,
\* a later get of the id fails with TaskNotFound, every other task is stored
\* as before under its id, in the same order, and the counter is unchanged.
C9_DeleteRemovesExactlyOne ==
    [][(ret'.op = "delete" /\ ret'.ok)
          => /\ DictHas(tasks, ret'.id)
             /\ Len(tasks') = Len(tasks) - 1
             /\ get(tasks', ret'.id).error = "TaskNotFound"
             /\ DictKeys(tasks') = DictKeys(tasks) \ {ret'.id}
             /\ \A k \in DictKeys(tasks) \ {ret'.id} :
                   /\ DictGet(tasks', k) = DictGet(tasks, k)
                   /\ DictGet(tasks', k).id = k
             /\ counter' = counter]_vars

\* C9 witness: a delete has succeeded and left another task stored.
C9_Witness == ret.op = "delete" /\ ret.ok /\ Len(tasks) >= 1 /\ ~DictHas(tasks, ret.id)

\* C10: mark_complete on a pending task sets completed, returns changed=true
\* and saves, after which a second mark_complete of the id returns
\* changed=false; on a completed task it returns changed=false, changes
\* nothing in memory and does not write the file.
C10_MarkComplete ==
    [][(ret'.op = "mark_complete" /\ ret'.ok)
          => /\ DictHas(tasks, ret'.id)
             /\ IF DictGet(tasks, ret'.id).completed
                THEN /\ ~ret'.changed
                     /\ ~ret'.wrote
                     /\ tasks' = tasks
                     /\ counter' = counter
                     /\ file' = file
                ELSE /\ ret'.changed
                     /\ ret'.wrote
                     /\ DictGet(tasks', ret'.id).completed
                     /\ tasks' = DictSet(tasks, ret'.id,
                                         [DictGet(tasks, ret'.id) EXCEPT !.completed = TRUE])
                     /\ counter' = counter
                     /\ FileHoldsMemory'
                     /\ ~MarkEffect(tasks', counter', file', ret'.id, TRUE).changed]_vars

\* C10 witness: mark_complete has returned changed=false for a completed task.
C10_Witness ==
    /\ ret.op = "mark_complete" /\ ret.ok /\ ~ret.changed
    /\ DictGet(tasks, ret.id).completed

\* C11: mark_incomplete mirrors mark_complete: on a completed task it clears
\* completed, returns changed=true and saves; on a pending task it returns
\* changed=false, changes nothing in memory and does not write the file.
C11_MarkIncomplete ==
    [][(ret'.op = "mark_incomplete" /\ ret'.ok)
          => /\ DictHas(tasks, ret'.id)
             /\ IF ~DictGet(tasks, ret'.id).completed
                THEN /\ ~ret'.changed
                     /\ ~ret'.wrote
                     /\ tasks' = tasks
                     /\ counter' = counter
                     /\ file' = file
                ELSE /\ ret'.changed
                     /\ ret'.wrote
                     /\ ~DictGet(tasks', ret'.id).completed
                     /\ tasks' = DictSet(tasks, ret'.id,
                                         [DictGet(tasks, ret'.id) EXCEPT !.completed = FALSE])
                     /\ counter' = counter
                     /\ FileHoldsMemory']_vars

\* C11 witness: mark_incomplete has returned changed=true while the file holds
\* the task as pending.
C11_Witness ==
    /\ ret.op = "mark_incomplete" /\ ret.ok /\ ret.changed
    /\ ~DictGet(tasks, ret.id).completed
    /\ FileHoldsMemory

\* C12: list_all returns every stored task exactly once, in ascending order
\* of the id, whatever the order in which the tasks came into the store.
C12_ListAllSortedOnce ==
    alive =>
        LET l == list_all(tasks)
        IN /\ Len(l) = Len(tasks)
           /\ \A i \in 1..Len(tasks) :
                 Cardinality({j \in 1..Len(l) : l[j] = tasks[i].task}) = 1
           /\ \A i, j \in 1..Len(l) : i < j => StrLess(l[i].id, l[j].id)

\* C12 witness: T1000 was added after T999 and list_all returns it first, the
\* order being that of the id strings.
C12_Witness ==
    /\ alive
    /\ ret.op = "add" /\ ret.ok /\ ret.id = FormatId(LastPaddedNumber + 1)
    /\ Len(tasks) = 2
    /\ list_all(tasks)[1].id = ret.id
    /\ list_all(tasks) # DictValues(tasks)

\* C13: every call of get, update, delete, mark_complete or mark_incomplete
\* with the id in uppercase (T001) is, with the same result and the same
\* task map, counter and file afterwards, the call with the id in lowercase
\* (t001), and conversely.
C13_CaseInsensitiveId ==
    [][\A k \in 1..MaxAdds :
          LET lo == LowerId(k)
              up == FormatId(k)
          IN /\ ret'.op = "get" => (Get(lo) <=> Get(up))
             /\ ret'.op = "delete" => (Delete(lo) <=> Delete(up))
             /\ ret'.op = "mark_complete" => (MarkComplete(lo) <=> MarkComplete(up))
             /\ ret'.op = "mark_incomplete" => (MarkIncomplete(lo) <=> MarkIncomplete(up))
             /\ ret'.op = "update" =>
                   \A t \in Optional(CallTitles), d \in Optional(CallDescriptions) :
                      Update(lo, t, d) <=> Update(up, t, d)]_vars

\* C13 witness: delete("t001") has removed the stored task T001 and written
\* the file.
C13_Witness ==
    /\ ret.op = "delete" /\ ret.ok /\ ret.wrote
    /\ ret.id = Upper(LowerId(1))
    /\ ret.id # LowerId(1)
    /\ ~DictHas(tasks, ret.id)
    /\ FileHoldsMemory

\* C14: in every state reached through the store's operations every stored
\* task has a title of 1 to 200 characters with no whitespace at either end
\* and a description of 0 to 1000 characters; add and update both keep it so.
C14_StoredTextsWithinLimits ==
    \A i \in 1..Len(tasks) :
       LET t == tasks[i].task
       IN /\ Len(t.title) >= 1
          /\ Len(t.title) <= MAX_TITLE_LENGTH
          /\ ~IsSpace(t.title[1])
          /\ ~IsSpace(t.title[Len(t.title)])
          /\ Len(t.description) <= MAX_DESCRIPTION_LENGTH

\* C14 witness: an update with a title written between spaces has stored it
\* trimmed.
C14_Witness ==
    /\ ret.op = "update" /\ ret.ok
    /\ DictGet(tasks, ret.id).title = <<"b">>
    /\ \E t \in TitleInputs : t # <<"b">> /\ Strip(t) = <<"b">>

\* an id in its stored form: T followed by digits
IsStoredId(id) ==
    /\ Len(id) >= 2
    /\ id[1] = "T"
    /\ \A i \in 2..Len(id) : IsDigit(id[i])

\* C15: after every step each task is stored under the key equal to its id,
\* which is T followed by digits; and every operation of the store (add, get,
\* update, delete, mark_complete, mark_incomplete) leaves the id and the
\* created_at of every task that stays stored as they were.
C15_IdAndCreatedAtImmutable ==
    [][/\ \A i \in 1..Len(tasks') :
             /\ tasks'[i].key = tasks'[i].task.id
             /\ IsStoredId(tasks'[i].task.id)
       /\ ret'.op # "construct" =>
             \A i \in 1..Len(tasks) :
                DictHas(tasks', tasks[i].key) =>
                   /\ DictGet(tasks', tasks[i].key).id = tasks[i].task.id
                   /\ DictGet(tasks', tasks[i].key).created_at = tasks[i].task.created_at]_vars

\* C15 witness: two tasks are stored, one was just marked complete, and each
\* still has its id and the created_at taken when it was added.
C15_Witness ==
    /\ ret.op = "mark_complete" /\ ret.ok /\ ret.changed
    /\ Len(tasks) = 2
    /\ \A i \in 1..Len(tasks) :
          /\ tasks[i].key = tasks[i].task.id
          /\ tasks[i].task.created_at = Now(IdNumber(tasks[i].key) - 1)

\* C16: a successful update leaves the counter, every other task, and the
\* id, completed flag and created_at of its task as they were; called with a
\* title only it leaves the description, called with a description only it
\* leaves the title.
C16_UpdateChangesOnlyGivenFields ==
    [][(ret'.op = "update" /\ ret'.ok) =>
          LET old == DictGet(tasks, ret'.id)
              new == DictGet(tasks', ret'.id)
          IN /\ counter' = counter
             /\ DictKeys(tasks') = DictKeys(tasks)
             /\ \A i \in 1..Len(tasks) :
                   tasks[i].key # ret'.id => DictGet(tasks', tasks[i].key) = tasks[i].task
             /\ new.id = old.id
             /\ new.completed = old.completed
             /\ new.created_at = old.created_at
             /\ \A i \in CallIds :
                   /\ \A t \in CallTitles :
                         Update(i, Some(t), None) =>
                            new.description = old.description /\ new.title = Strip(t)
                   /\ \A d \in CallDescriptions :
                         Update(i, None, Some(d)) =>
                            new.title = old.title /\ new.description = d]_vars

\* C16 witness: an update has set the title of a completed task that has a
\* description, beside another stored task.
C16_Witness ==
    /\ ret.op = "update" /\ ret.ok
    /\ Len(tasks) = 2
    /\ DictGet(tasks, ret.id).title = <<"b">>
    /\ DictGet(tasks, ret.id).description = <<"d">>
    /\ DictGet(tasks, ret.id).completed

\* C17: update called with neither a title nor a description raises
\* NoChangesSpecified and leaves the task map, the counter and the file as
\* they were, whatever the id: stored, absent or malformed.
C17_NoChangesSpecifiedFirst ==
    [][\A i \in CallIds :
          Update(i, None, None) =>
             /\ ret'.op = "update"
             /\ ~ret'.ok
             /\ ret'.error = "NoChangesSpecified"
             /\ UNCHANGED <<tasks, counter, file>>]_vars

\* C17 witness: update has raised NoChangesSpecified on an empty store, where
\* every id passed is malformed or names no task.
C17_Witness ==
    /\ ret.op = "update" /\ ret.error = "NoChangesSpecified"
    /\ tasks = <<>>
    /\ \E i \in CallIds : ~validate_task_id(i).ok
    /\ \A i \in CallIds : ~get(tasks, i).ok

\* C18: an add that raises (EmptyTitle, TitleTooLong or DescriptionTooLong)
\* leaves the counter, the task map and the file as they were, so the add
\* that succeeds next is given the id it would have been given before.
C18_FailedAddAllocatesNoId ==
    [][(ret'.op = "add" /\ ~ret'.ok) =>
          /\ ret'.error \in {"EmptyTitle", "TitleTooLong", "DescriptionTooLong"}
          /\ counter' = counter
          /\ tasks' = tasks
          /\ file' = file
          /\ issued' = issued
          /\ AddEffect(tasks', counter', <<"a">>, <<>>, Now(counter')).id
                = AddEffect(tasks, counter, <<"a">>, <<>>, Now(counter)).id]_vars

\* C18 witness: an add has raised DescriptionTooLong after one task was
\* added, and the id the next add is given is T002.
C18_Witness ==
    /\ ret.op = "add" /\ ~ret.ok /\ ret.error = "DescriptionTooLong"
    /\ Len(issued) = 1
    /\ AddEffect(tasks, counter, <<"a">>, <<>>, Now(counter)).id = FormatId(2)

\* the outcome of a step classifies the id i: malformed, InvalidIDFormat and
\* nothing changed; well-formed and not stored, TaskNotFound carrying the id in
\* uppercase and nothing changed; stored, the operation went on to that task
ClassifiesId(i) ==
    LET v == validate_task_id(i)
    IN IF ~v.ok
       THEN /\ ~ret'.ok /\ ret'.error = "InvalidIDFormat"
            /\ UNCHANGED <<tasks, counter, file>>
       ELSE IF ~DictHas(tasks, v.value)
       THEN /\ ~ret'.ok /\ ret'.error = "TaskNotFound" /\ ret'.id = Upper(i)
            /\ UNCHANGED <<tasks, counter, file>>
       ELSE /\ ret'.error \notin {"InvalidIDFormat", "TaskNotFound", "NoChangesSpecified"}
            /\ ret'.id = Upper(i)

\* the step is the call of get, delete, mark_complete or mark_incomplete with
\* the id i
IdOnlyCall(i) ==
    \/ ret'.op = "get" /\ Get(i)
    \/ ret'.op = "delete" /\ Delete(i)
    \/ ret'.op = "mark_complete" /\ MarkComplete(i)
    \/ ret'.op = "mark_incomplete" /\ MarkIncomplete(i)

\* C19 as stated: every call of get, delete, update, mark_complete and
\* mark_incomplete classifies its id the same way: InvalidIDFormat for a
\* malformed id, TaskNotFound with the uppercase id for an absent one, else
\* the operation acts on the stored task.
C19_UniformIdClassification ==
    [][\A i \in CallIds :
          (\/ IdOnlyCall(i)
           \/ /\ ret'.op = "update"
              /\ \E t \in Optional(CallTitles), d \in Optional(CallDescriptions) :
                    Update(i, t, d))
             => ClassifiesId(i)]_vars

\* C19 amended: get, delete, mark_complete and mark_incomplete, and update
\* called with a title or a description, classify the id the same way:
\* InvalidIDFormat for a malformed id, TaskNotFound with the uppercase id for
\* an absent one, else the operation acts on the stored task.
C19_UniformIdClassificationGivenFields ==
    [][\A i \in CallIds :
          (\/ IdOnlyCall(i)
           \/ /\ ret'.op = "update"
              /\ \E t \in Optional(CallTitles), d \in Optional(CallDescriptions) :
                    /\ t.some \/ d.some
                    /\ Update(i, t, d))
             => ClassifiesId(i)]_vars

\* C19 witness: an update with a field given has raised TaskNotFound carrying
\* T002 while only T001 is stored.
C19_Witness ==
    /\ ret.op = "update" /\ ret.error = "TaskNotFound"
    /\ ret.id = FormatId(2)
    /\ DictKeys(tasks) = {FormatId(1)}

\* the titles a dict holds
StoredTitles(d) == {d[i].task.title : i \in 1..Len(d)}

\* the titles the file's records hold
FileTitles ==
    IF file.kind = "json_object"
    THEN {file.data.tasks[i].title : i \in 1..Len(file.data.tasks)}
    ELSE {}

\* C20: with two store instances over one file, every successful mutation by
\* either instance returns without error, leaves the file holding exactly the
\* snapshot of the instance that made it, whatever the other instance wrote
\* before, and leaves the other instance's memory as it was; and no call or
\* construction fails but for an id the calling instance does not hold.
C20_LastWriterWins ==
    [][/\ (ret'.op \in {"add", "delete", "mark_complete"} /\ ret'.wrote) =>
             /\ ret'.ok
             /\ FileHoldsMemory'
             /\ file' = SavedFile(tasks', counter')
             /\ other' = other
       /\ ~ret'.ok =>
             /\ ret'.error = "TaskNotFound"
             /\ ~DictHas(tasks, ret'.id)
             /\ UNCHANGED <<tasks, counter, file, other>>]_vars

\* C20 witness: both instances have added a task; the file holds the snapshot
\* of the instance that wrote last, and the title the other instance added
\* and still holds in memory is not in the file.
C20_Witness ==
    /\ ret.op = "add" /\ ret.ok /\ ret.wrote
    /\ other.alive
    /\ FileHoldsMemory
    /\ other.tasks # <<>>
    /\ tasks # <<>>
    /\ StoredTitles(other.tasks) \cap FileTitles = {}

\* the records of the storage file
FileTaskRecords ==
    IF file.kind = "json_object" /\ "tasks" \in DOMAIN file.data
    THEN {file.data.tasks[i] : i \in 1..Len(file.data.tasks)}
    ELSE {}

\* C21: what a caller assigns to a field of a returned Task without calling
\* a store method never reaches the storage file: where the store is given
\* other texts only and is never asked to complete a task, no record of the
\* file holds the caller's title or description or is completed.
C21_CallerChangesNeverSaved ==
    \A r \in FileTaskRecords :
       /\ r.title # CallerText
       /\ r.description # CallerText
       /\ ~r.completed

\* the tasks of a list
Members(l) == {l[i] : i \in 1..Len(l)}

\* the list is in strictly ascending order of the id strings
AscendingIds(l) == \A i, j \in 1..Len(l) : i < j => StrLess(l[i].id, l[j].id)

\* C22: in every state list_pending holds exactly the stored tasks that are
\* not completed and list_completed exactly those that are, each once; the
\* two lists share no task, together hold every stored task once, are
\* list_all filtered by the flag, and are in ascending id order.
C22_PendingAndCompletedPartition ==
    alive =>
        LET p == list_pending(tasks)
            c == list_completed(tasks)
            stored == Members(DictValues(tasks))
        IN /\ Members(p) = {t \in stored : ~t.completed}
           /\ Members(c) = {t \in stored : t.completed}
           /\ Members(p) \cap Members(c) = {}
           /\ Len(p) + Len(c) = count(tasks)
           /\ Cardinality(Members(p)) = Len(p)
           /\ Cardinality(Members(c)) = Len(c)
           /\ p = SelectSeq(list_all(tasks), LAMBDA t : ~t.completed)
           /\ c = SelectSeq(list_all(tasks), LAMBDA t : t.completed)
           /\ AscendingIds(p)
           /\ AscendingIds(c)

\* C22 witness: a store constructed over a file that holds two pending tasks,
\* T002 before T001; list_pending returns T001 first.
C22_Witness ==
    /\ alive
    /\ Len(tasks) = 2
    /\ Len(list_pending(tasks)) = 2
    /\ list_pending(tasks) # DictValues(tasks)
    /\ list_completed(tasks) = <<>>

\* the positions of the text that hold no whitespace
NonSpaceAt(t) == {i \in 1..Len(t) : ~IsSpace(t[i])}

\* the text from its first to its last character that is no whitespace
Trimmed(t) ==
    IF NonSpaceAt(t) = {} THEN <<>>
    ELSE LET first == CHOOSE i \in NonSpaceAt(t) : \A j \in NonSpaceAt(t) : i <= j
             last == CHOOSE i \in NonSpaceAt(t) : \A j \in NonSpaceAt(t) : i >= j
         IN SubSeq(t, first, last)

\* what the validation of each title is stated to give
TitleAsStated ==
    [t \in BoundaryTitles |->
        IF Trimmed(t) = <<>> THEN Fail("EmptyTitle")
        ELSE IF Len(Trimmed(t)) > 200 THEN Fail("TitleTooLong")
        ELSE Ok(Trimmed(t))]

\* C23: validate_title fails with EmptyTitle when the title is empty or all
\* whitespace, fails with TitleTooLong when the trimmed title is longer than
\* 200 (200 passes, 201 fails), and otherwise returns the trimmed title; an
\* add called with the title fails the same way or stores the trimmed title.
C23_ValidateTitle ==
    [][/\ \A t \in BoundaryTitles : validate_title(t) = TitleAsStated[t]
       /\ ret'.op = "add" =>
             \A t \in BoundaryTitles :
                AddCall(t, <<>>) =>
                   IF TitleAsStated[t].ok
                   THEN /\ ret'.ok
                        /\ DictGet(tasks', ret'.id).title = TitleAsStated[t].value
                   ELSE /\ ~ret'.ok
                        /\ ret'.error = TitleAsStated[t].error
                        /\ tasks' = tasks]_vars

\* C23 witness: an add has stored a title of exactly 200 characters, which was
\* passed between spaces or bare.
C23_Witness ==
    /\ ret.op = "add" /\ ret.ok
    /\ Len(DictGet(tasks, ret.id).title) = 200
    /\ \E t \in BoundaryTitles :
          Len(t) > 200 /\ TitleAsStated[t] = Ok(DictGet(tasks, ret.id).title)

\* the id is the letter T in either case followed by one or more digits
IsTThenDigits(i) ==
    /\ Len(i) >= 2
    /\ i[1] \in {"T", "t"}
    /\ \A k \in 2..Len(i) : i[k] \in {"0", "1", "2", "3", "4", "5", "6", "7", "8", "9"}

\* the id with its first letter in uppercase
WithCapitalT(i) == <<"T">> \o Tail(i)

\* C24: validate_task_id returns the uppercased id for exactly the ids made of
\* T or t followed by one or more digits (t001 gives T001; T1 and T12345 pass)
\* and fails with InvalidIDFormat for every other id (T, Tabc, X001, 001, the
\* empty id); get called with the id looks up the uppercased id or fails so.
C24_ValidateTaskId ==
    [][/\ \A i \in BoundaryIds :
             validate_task_id(i) =
                IF IsTThenDigits(i) THEN Ok(WithCapitalT(i)) ELSE Fail("InvalidIDFormat")
       /\ ret'.op = "get" =>
             \A i \in BoundaryIds :
                Get(i) =>
                   IF IsTThenDigits(i)
                   THEN /\ ret'.error \in {"none", "TaskNotFound"}
                        /\ ret'.id = WithCapitalT(i)
                        /\ ret'.ok = DictHas(tasks, WithCapitalT(i))
                   ELSE ~ret'.ok /\ ret'.error = "InvalidIDFormat"]_vars

\* C24 witness: get("T1") has failed with TaskNotFound carrying T1 while T001
\* is stored: the id passed validation and was looked up as it is.
C24_Witness ==
    /\ ret.op = "get" /\ ret.error = "TaskNotFound"
    /\ ret.id = <<"T", "1">>
    /\ DictHas(tasks, FormatId(1))

\* C26: validate_description returns the description as it is, untrimmed,
\* when it has at most 1000 characters (empty and 1000 pass) and fails with
\* DescriptionTooLong when it has 1001 or more; an add called with the
\* description stores it as it is or fails so.
C26_ValidateDescription ==
    [][/\ \A d \in BoundaryDescriptions :
             validate_description(d) =
                IF Len(d) <= 1000 THEN Ok(d) ELSE Fail("DescriptionTooLong")
       /\ ret'.op = "add" =>
             \A d \in BoundaryDescriptions :
                AddCall(<<"a">>, d) =>
                   IF Len(d) <= 1000
                   THEN /\ ret'.ok
                        /\ DictGet(tasks', ret'.id).description = d
                   ELSE /\ ~ret'.ok
                        /\ ret'.error = "DescriptionTooLong"
                        /\ tasks' = tasks]_vars

\* C26 witness: an add has stored a description that begins and ends with a
\* space.
C26_Witness ==
    /\ ret.op = "add" /\ ret.ok
    /\ DictGet(tasks, ret.id).description = <<" ", "d", " ">>

\* counter values around the widths of the id
SampleCounters == {1, 9, 10, 99, 100, 999, 1000, 1001, 9999, 10000, 12345}

\* C25: every successful add raises the counter by exactly 1 and returns T
\* followed by the decimal digits of the new counter, padded with zeros to
\* three digits and never cut (1 gives T001, 999 T999, 1000 T1000); the ids
\* of distinct counter values are distinct.
C25_AllocatorFormat ==
    [][/\ FormatId(1) = <<"T", "0", "0", "1">>
       /\ FormatId(999) = <<"T", "9", "9", "9">>
       /\ FormatId(1000) = <<"T", "1", "0", "0", "0">>
       /\ \A m, n \in SampleCounters : m # n => FormatId(m) # FormatId(n)
       /\ (ret'.op = "add" /\ ret'.ok) =>
             /\ counter' = counter + 1
             /\ ret'.id[1] = "T"
             /\ Len(ret'.id) >= 4
             /\ \A k \in 2..Len(ret'.id) : IsDigit(ret'.id[k])
             /\ Len(ret'.id) > 4 => ret'.id[2] # "0"
             /\ IdNumber(ret'.id) = counter'
             /\ DictHas(tasks', ret'.id)]_vars

\* C25 witness: an add made at counter 999 has returned the four-digit id
\* T1000.
C25_Witness ==
    /\ ret.op = "add" /\ ret.ok
    /\ counter = LastPaddedNumber + 1
    /\ Len(ret.id) = 5
    /\ IdNumber(ret.id) = counter

\* the commands whose process ended with the store outcome ret
CliCommandsEnded ==
    IF ret.op = "construct" THEN IF ret.ok THEN {} ELSE CliCommands
    ELSE {c \in CliCommands : CliOperation(c) = ret.op}

\* C27: every command's process exits with code 1 and an 'Error: ' message
\* exactly when its store operation raised a failure condition, and with code
\* 0 otherwise; complete and incomplete on a task already in that state exit
\* with code 0 and an 'already' message.
C27_CliExitCodes ==
    \A c \in CliCommandsEnded :
       LET o == CliOutcome(c, ret)
           failed == ret.op = CliOperation(c) /\ ~ret.ok /\ ret.error \in FailureConditions
       IN /\ failed <=> (o.code = 1 /\ o.message = "Error: ")
          /\ ~failed => o.code = 0
          /\ (c \in {"complete", "incomplete"} /\ ret.ok /\ ~ret.changed)
                => o.message = "already"

\* C28: a TaskService constructed with no storage_file argument starts
\* empty every time: after every construction the store holds no task, its
\* counter is 0 and the first add is given T001, also when an instance
\* constructed the same way has added tasks before.
C28_DefaultStoreStartsEmpty ==
    (ret.op = "construct" /\ ret.ok) =>
        /\ count(tasks) = 0
        /\ list_all(tasks) = <<>>
        /\ AddEffect(tasks, counter, <<"a">>, <<>>, Now(counter)).id = FormatId(1)

\* C29: from a fresh store the counter never decreases: after every step it
\* equals the number of successful adds so far, a successful add raises it
\* by 1, every other call (delete, update, mark_complete, mark_incomplete,
\* get, a failed call) leaves it as it was, and it is at least the number of
\* every stored id and at least count().
C29_CounterMonotonic ==
    [][/\ counter' >= counter
       /\ counter' = Len(issued')
       /\ (ret'.op = "add" /\ ret'.ok) => counter' = counter + 1
       /\ (ret'.op \in {"get", "update", "delete", "mark_complete", "mark_incomplete"}
             \/ ~ret'.ok) => counter' = counter
       /\ \A i \in 1..Len(tasks') : IdNumber(tasks'[i].key) <= counter'
       /\ count(tasks') <= counter']_vars

\* C29 witness: both tasks added have been deleted: the store is empty and the
\* counter is still 2.
C29_Witness ==
    /\ ret.op = "delete" /\ ret.ok
    /\ count(tasks) = 0
    /\ counter = 2
    /\ Len(issued) = 2

\* C30: in a store constructed over any file that loads without error, also
\* one whose counter is absent or below the number of a stored id, a
\* successful add raises count() by exactly 1 and leaves every task stored
\* before as it was.
C30_AddNeverReplaces ==
    [][(ret'.op = "add" /\ ret'.ok) =>
          /\ count(tasks') = count(tasks) + 1
          /\ \A i \in 1..Len(tasks) :
                /\ DictHas(tasks', tasks[i].key)
                /\ DictGet(tasks', tasks[i].key) = tasks[i].task]_vars

\* C31: list_all returns the tasks in ascending order of the number of the
\* id, also when ids of three and of four digits are stored together: T999
\* comes before T1000.
C31_ListAllNumericOrder ==
    alive =>
        LET l == list_all(tasks)
        IN \A i, j \in 1..Len(l) : i < j => IdNumber(l[i].id) < IdNumber(l[j].id)

\* what each later mutation would return and leave behind when called on a
\* store whose dict, counter and file are d, c and f
LaterAdd(d, c, title, description) ==
    LET vt == validate_title(title)
        vd == validate_description(description)
    IN IF ~vt.ok THEN <<vt.error>>
       ELSE IF ~vd.ok THEN <<vd.error>>
       ELSE <<AddEffect(d, c, vt.value, vd.value, Now(c))>>

LaterUpdate(d, c, f, raw, title, description) ==
    LET g == get(d, raw)
    IN IF ~title.some /\ ~description.some THEN <<"NoChangesSpecified">>
       ELSE IF ~g.ok THEN <<g.error>>
       ELSE <<UpdateEffect(d, c, f, g.id, title, description)>>

LaterDelete(d, c, raw) ==
    LET g == get(d, raw)
    IN IF ~g.ok THEN <<g.error>> ELSE <<DeleteEffect(d, c, g.id)>>

LaterMark(d, c, f, raw, value) ==
    LET g == get(d, raw)
    IN IF ~g.ok THEN <<g.error>> ELSE <<MarkEffect(d, c, f, g.id, value)>>

LaterMutations(d, c, f) ==
    [add |-> [t \in ReadTexts |-> LaterAdd(d, c, t, <<>>)],
     update |-> [i \in ReadIds, t \in Optional(ReadTexts) |->
                    LaterUpdate(d, c, f, i, t, None)],
     delete |-> [i \in ReadIds |-> LaterDelete(d, c, i)],
     mark |-> [i \in ReadIds, v \in BOOLEAN |-> LaterMark(d, c, f, i, v)]]

Queries == {"get", "list_all", "list_pending", "list_completed", "count"}

\* C32: get, list_all, list_pending, list_completed and count, succeeding or
\* failing, leave the task map, the counter and the storage file as they
\* were, and every mutation called after them returns and leaves behind what
\* it would have without them.
C32_QueriesChangeNothing ==
    [][ret'.op \in Queries =>
          /\ UNCHANGED <<tasks, counter, file>>
          /\ LaterMutations(tasks, counter, file)' = LaterMutations(tasks, counter, file)]_vars

\* a query has just been called on a store that holds a task; the file is
\* still as the add left it
C32_QueriedStore ==
    /\ ret.op \in Queries
    /\ tasks # <<>>
    /\ FileHoldsMemory

\* the instance with dict d and counter c is as its constructor left it when
\* it was given the storage file as it is now
ConstructedFromFile(d, c) ==
    LET r == Load(file)
    IN r.raised = "none" /\ d = r.tasks /\ c = r.counter

\* the id the other instance returns from an add called now
OtherNextAddId ==
    AddEffect(other.tasks, other.counter, <<"a">>, <<>>, Now(other.counter)).id

\* C33: when two store instances are as constructed from the same storage
\* file content, the id the one returns from its next successful add is the
\* id the other returns from its next successful add, made after it.
C33_SameIdFromBothInstances ==
    [][(/\ ret'.op = "add" /\ ret'.ok
        /\ other.alive
        /\ ConstructedFromFile(tasks, counter)
        /\ ConstructedFromFile(other.tasks, other.counter)) =>
          /\ ret'.id = FormatId(Load(file).counter + 1)
          /\ OtherNextAddId' = ret'.id]_vars

\* both instances were constructed over the file holding one task, each has
\* added a task since, and both adds returned the same id, which each instance
\* holds: the ids returned are not unique across the two instances
C33_Witness ==
    /\ ret.op = "add" /\ ret.ok
    /\ other.alive
    /\ \E i, j \in 1..Len(issued) : i < j /\ issued[i] = issued[j] /\ issued[j] = ret.id
    /\ DictHas(tasks, ret.id)
    /\ DictHas(other.tasks, ret.id)
    /\ Len(tasks) = 2 /\ Len(other.tasks) = 2

\* C34 as stated: on a store that holds T001, every get, update, delete,
\* mark_complete and mark_incomplete called with T1 or T0001 passes the id's
\* validation and fails with TaskNotFound, and the dict, the counter and the
\* file are as before.
C34_LookupByExactId ==
    [][\A i \in ShortAndLongIds :
          (/\ DictHas(tasks, FormatId(1))
           /\ \/ Get(i) \/ Delete(i) \/ MarkComplete(i) \/ MarkIncomplete(i)
              \/ \E t \in Optional(ReadTexts), d \in Optional(ReadTexts) : Update(i, t, d)) =>
             /\ validate_task_id(i).ok
             /\ ~ret'.ok
             /\ ret'.error = "TaskNotFound"
             /\ UNCHANGED <<tasks, counter, file>>]_vars

\* C34, amended: the same, for get, delete, mark_complete and mark_incomplete
\* and for update called with a title or a description; the TaskNotFound
\* carries the id as passed, in uppercase. update called with neither fails
\* with NoChangesSpecified and changes nothing.
C34_LookupByExactIdGivenFields ==
    [][\A i \in ShortAndLongIds :
          /\ (/\ DictHas(tasks, FormatId(1))
              /\ \/ Get(i) \/ Delete(i) \/ MarkComplete(i) \/ MarkIncomplete(i)
                 \/ \E t \in Optional(ReadTexts), d \in Optional(ReadTexts) :
                       (t.some \/ d.some) /\ Update(i, t, d)) =>
                /\ validate_task_id(i).ok
                /\ ~ret'.ok
                /\ ret'.error = "TaskNotFound"
                /\ ret'.id = i
                /\ UNCHANGED <<tasks, counter, file>>
          /\ (DictHas(tasks, FormatId(1)) /\ Update(i, None, None)) =>
                /\ ret'.error = "NoChangesSpecified"
                /\ UNCHANGED <<tasks, counter, file>>]_vars

\* delete has just been called with T0001 on a store that holds T001 and has
\* failed with TaskNotFound for T0001; T001 is still stored and saved
C34_Witness ==
    /\ ret.op = "delete"
    /\ ret.error = "TaskNotFound"
    /\ ret.id = <<"T", "0", "0", "0", "1">>
    /\ DictHas(tasks, FormatId(1))
    /\ FileHoldsMemory

====
